---- MODULE Spec2Model ----
(***************************************************************************)
(* siplog: the line normaliser of src/main.rs.  The main loop reads one   *)
(* line from standard input, tries it as a structured (JSON) record and   *)
(* otherwise runs the free-text pipeline (source location, level,         *)
(* timestamp, message reassembly), printing one rendered line.            *)
(*                                                                         *)
(* Text is modelled as sequences of characters (one-character strings),   *)
(* so that trimming, splitting, stripping, parsing and formatting are     *)
(* computed character by character as the code computes them.  Integers   *)
(* of 64 bits are kept as decimal digit sequences.                        *)
(***************************************************************************)
EXTENDS Integers, Sequences, FiniteSets, TLC

VARIABLES
    stdin,            \* the read results still to come: lines and read errors
    now,              \* the last reading of the wall clock, in ms after ClockStart
    pc,               \* position of main's loop
    input,            \* main: input
    json_candidate,   \* main: json_candidate
    split,            \* main: split
    found_line,       \* main: found_line
    found_level,      \* main: found_level
    found_timestamp,  \* main: found_timestamp
    stdout,           \* the lines printed to standard output, in order
    diagnostics,      \* the number of messages handed to error!()
    consumed          \* the lines read_line has returned so far (history)

vars == <<stdin, now, pc, input, json_candidate, split, found_line,
          found_level, found_timestamp, stdout, diagnostics, consumed>>

(***************************************************************************)
(* Option<T>                                                               *)
(***************************************************************************)
None == [some |-> FALSE]
Some(v) == [some |-> TRUE, val |-> v]

(***************************************************************************)
(* Characters and strings                                                  *)
(***************************************************************************)
DigitSeq == <<"0", "1", "2", "3", "4", "5", "6", "7", "8", "9">>
DigitChars == {DigitSeq[i] : i \in 1..10}
DigitVal(c) == (CHOOSE i \in 1..10 : DigitSeq[i] = c) - 1

\* char::is_whitespace, on the characters the inputs are made of
WhiteSpace == {" ", "\t", "\n", "\r"}

\* the one non-ASCII character of the inputs (e with acute accent)
NonAscii == {"U+00E9"}

IsAscii(c) == c \notin NonAscii

\* str::replace(pattern, ""): every character of `chars` removed
Replace(s, chars) == SelectSeq(s, LAMBDA c : c \notin chars)

\* str::trim_start, as an index: the first non-whitespace position at or after p
RECURSIVE SkipWhite(_, _)
SkipWhite(s, p) ==
    IF p <= Len(s) /\ s[p] \in WhiteSpace THEN SkipWhite(s, p + 1) ELSE p

RECURSIVE SkipWhiteBack(_, _)
SkipWhiteBack(s, p) ==
    IF p >= 1 /\ s[p] \in WhiteSpace THEN SkipWhiteBack(s, p - 1) ELSE p

\* str::trim
Trim(s) ==
    LET a == SkipWhite(s, 1)
        b == SkipWhiteBack(s, Len(s))
    IN IF a > b THEN <<>> ELSE SubSeq(s, a, b)

RECURSIVE FindChar(_, _, _)
FindChar(s, p, c) ==
    IF p > Len(s) THEN 0
    ELSE IF s[p] = c THEN p
    ELSE FindChar(s, p + 1, c)

\* str::split(sep).collect(): the pieces between the separators; the empty
\* string gives one empty piece
RECURSIVE StrSplit(_, _)
StrSplit(s, sep) ==
    LET i == FindChar(s, 1, sep)
    IN IF i = 0 THEN <<s>>
       ELSE <<SubSeq(s, 1, i - 1)>> \o StrSplit(SubSeq(s, i + 1, Len(s)), sep)

\* Vec::remove(index), with the 0-based index of the code
VecRemove(v, index) ==
    SubSeq(v, 1, index) \o SubSeq(v, index + 2, Len(v))

\* the number of leading decimal digits of s from position p, at most max
RECURSIVE CountDigits(_, _, _)
CountDigits(s, p, max) ==
    IF max > 0 /\ p <= Len(s) /\ s[p] \in DigitChars
    THEN 1 + CountDigits(s, p + 1, max - 1)
    ELSE 0

\* a digit sequence without its leading zeros
RECURSIVE StripZeros(_)
StripZeros(d) ==
    IF Len(d) > 1 /\ d[1] = "0" THEN StripZeros(Tail(d)) ELSE d

RECURSIVE DigitsLess(_, _)
DigitsLess(a, b) ==
    IF a = <<>> THEN FALSE
    ELSE IF DigitVal(a[1]) # DigitVal(b[1]) THEN DigitVal(a[1]) < DigitVal(b[1])
    ELSE DigitsLess(Tail(a), Tail(b))

\* a <= b for two decimal digit sequences of any length
DecLeq(a, b) ==
    LET x == StripZeros(a)
        y == StripZeros(b)
    IN IF Len(x) # Len(y) THEN Len(x) < Len(y)
       ELSE x = y \/ DigitsLess(x, y)

\* the value of a digit sequence that fits the model's integers
RECURSIVE DecVal(_)
DecVal(d) ==
    IF d = <<>> THEN 0
    ELSE DecVal(SubSeq(d, 1, Len(d) - 1)) * 10 + DigitVal(d[Len(d)])

\* format!("{}", n) of a natural number
RECURSIVE NatDigits(_)
NatDigits(n) ==
    IF n < 10 THEN <<DigitSeq[n + 1]>>
    ELSE NatDigits(n \div 10) \o <<DigitSeq[(n % 10) + 1]>>

\* format!("{:0w$}", n)
RECURSIVE ZeroPad(_, _)
ZeroPad(d, w) == IF Len(d) >= w THEN d ELSE ZeroPad(<<"0">> \o d, w)

I32Max == <<"2", "1", "4", "7", "4", "8", "3", "6", "4", "7">>
I32MinAbs == <<"2", "1", "4", "7", "4", "8", "3", "6", "4", "8">>

\* str::parse::<i32>().is_ok(): an optional sign, then one or more digits
\* whose value fits 32 bits
ParseI32Ok(s) ==
    LET signed == s # <<>> /\ s[1] \in {"+", "-"}
        digits == IF signed THEN Tail(s) ELSE s
    IN /\ digits # <<>>
       /\ \A i \in 1..Len(digits) : digits[i] \in DigitChars
       /\ IF signed /\ s[1] = "-"
          THEN DecLeq(digits, I32MinAbs)
          ELSE DecLeq(digits, I32Max)

(***************************************************************************)
(* Levels                                                                  *)
(***************************************************************************)
LevelNames == {"Error", "Warn", "Info", "Debug", "Trace"}

WordERROR == <<"E", "R", "R", "O", "R">>
WordWARN == <<"W", "A", "R", "N">>
WordINFO == <<"I", "N", "F", "O">>
WordDEBUG == <<"D", "E", "B", "U", "G">>
WordTRACE == <<"T", "R", "A", "C", "E">>
WordERR == <<"E", "R", "R">>
WordWARNING == <<"W", "A", "R", "N", "I", "N", "G">>
WordCONSOLE == <<"C", "O", "N", "S", "O", "L", "E">>
WordNOTICE == <<"N", "O", "T", "I", "C", "E">>

\* impl TryFrom<String> for CustomLevel
CustomLevelTryFrom(item) ==
    IF item = WordERROR THEN Some("Error")
    ELSE IF item = WordWARN THEN Some("Warn")
    ELSE IF item = WordINFO THEN Some("Info")
    ELSE IF item = WordDEBUG THEN Some("Debug")
    ELSE IF item = WordTRACE THEN Some("Trace")
    ELSE IF item = WordERR THEN Some("Err")
    ELSE IF item = WordWARNING THEN Some("Warn")
    ELSE IF item = WordCONSOLE THEN Some("Console")
    ELSE IF item = WordNOTICE THEN Some("Notice")
    ELSE None

\* impl From<CustomLevel> for Level
LevelFromCustomLevel(item) ==
    CASE item = "Error" -> "Error"
      [] item = "Warn" -> "Warn"
      [] item = "Info" -> "Info"
      [] item = "Debug" -> "Debug"
      [] item = "Trace" -> "Trace"
      [] item = "Err" -> "Error"
      [] item = "Warning" -> "Warn"
      [] item = "Console" -> "Debug"
      [] item = "Notice" -> "Trace"

\* the mapping without its branch for 60
CustomLevelFromUsizeWithout60(item) ==
    LET d == StripZeros(item)
    IN IF d = <<"1", "0">> THEN "Trace"
       ELSE IF d = <<"2", "0">> THEN "Debug"
       ELSE IF d = <<"3", "0">> THEN "Info"
       ELSE IF d = <<"4", "0">> THEN "Warn"
       ELSE IF d = <<"5", "0">> THEN "Error"
       ELSE "Trace"

\* impl From<usize> for CustomLevel; item is a decimal digit sequence
CustomLevelFromUsize(item) ==
    LET d == StripZeros(item)
    IN IF d = <<"1", "0">> THEN "Trace"
       ELSE IF d = <<"2", "0">> THEN "Debug"
       ELSE IF d = <<"3", "0">> THEN "Info"
       ELSE IF d = <<"4", "0">> THEN "Warn"
       ELSE IF d = <<"5", "0">> THEN "Error"
       ELSE IF d = <<"6", "0">> THEN "Error"
       ELSE "Trace"

\* the (label, color) match of both custom_print functions
LevelLabel(level) ==
    CASE level = "Error" -> [label |-> <<"E", "R", "R", "O", "R">>, color |-> 1]
      [] level = "Warn" -> [label |-> <<"W", "A", "R", "N", " ">>, color |-> 3]
      [] level = "Info" -> [label |-> <<"I", "N", "F", "O", " ">>, color |-> 7]
      [] level = "Debug" -> [label |-> <<"D", "E", "B", "U", "G">>, color |-> 4]
      [] level = "Trace" -> [label |-> <<"T", "R", "A", "C", "E">>, color |-> 5]

(***************************************************************************)
(* chrono: NaiveDateTime, as a record of its calendar fields.  The         *)
(* fraction is kept in milliseconds, the only part %.3f prints; a leap     *)
(* second is second 60.                                                    *)
(***************************************************************************)
MinYear == 0 - 262144
MaxYear == 262143

IsLeapYear(y) == (y % 4 = 0 /\ y % 100 # 0) \/ y % 400 = 0

DaysInMonth(y, m) ==
    IF m = 2 THEN (IF IsLeapYear(y) THEN 29 ELSE 28)
    ELSE IF m \in {4, 6, 9, 11} THEN 30
    ELSE 31

\* scan::number(s, 1, max) from position p, given the count n of digits it
\* takes.  A run of more than 9 digits (possible only after an explicit
\* sign) denotes a year no date has, so it is reported as a failure, which
\* is what the parse ends in.
Scanned(s, p, n) ==
    [ok |-> n >= 1 /\ n <= 9,
     val |-> IF n >= 1 /\ n <= 9 THEN DecVal(SubSeq(s, p, p + n - 1)) ELSE 0,
     next |-> p + n]

ScanNumber(s, p, max) == Scanned(s, p, CountDigits(s, p, max))

IsLiteral(s, p, c) == p <= Len(s) /\ s[p] = c

\* the milliseconds of the fraction digits d (one to three of them)
FractionMillis(d) == DecVal(d \o SubSeq(<<"0", "0">>, 1, 3 - Len(d)))

\* Parsed::to_naive_datetime_with_offset: the fields make a date and a time
\* of day, and nothing is left of the text
Resolve(s, year, month, day, time, end) ==
    IF /\ end = Len(s) + 1
       /\ year >= MinYear /\ year <= MaxYear
       /\ month >= 1 /\ month <= 12
       /\ day >= 1 /\ day <= DaysInMonth(year, month)
       /\ time.hour <= 23 /\ time.minute <= 59 /\ time.second <= 60
    THEN Some([year |-> year, month |-> month, day |-> day,
               hour |-> time.hour, minute |-> time.minute,
               second |-> time.second, milli |-> time.milli])
    ELSE None

\* %.3f: an optional '.' followed by one or more digits, of which the first
\* nine count (the first three are the milliseconds)
ParseNanosecond(s, year, month, day, hour, minute, sc) ==
    IF ~sc.ok THEN None
    ELSE IF IsLiteral(s, sc.next, ".")
    THEN IF CountDigits(s, sc.next + 1, 9) = 0 THEN None
         ELSE Resolve(s, year, month, day,
                      [hour |-> hour, minute |-> minute, second |-> sc.val,
                       milli |-> FractionMillis(
                           SubSeq(s, sc.next + 1,
                                  sc.next + CountDigits(s, sc.next + 1, 3)))],
                      sc.next + 1 + CountDigits(s, sc.next + 1, Len(s)))
    ELSE Resolve(s, year, month, day,
                 [hour |-> hour, minute |-> minute, second |-> sc.val,
                  milli |-> 0],
                 sc.next)

\* ":%S"
ParseSecond(s, year, month, day, hour, mi) ==
    IF mi.ok /\ IsLiteral(s, mi.next, ":")
    THEN ParseNanosecond(s, year, month, day, hour, mi.val,
                         ScanNumber(s, SkipWhite(s, mi.next + 1), 2))
    ELSE None

\* ":%M"
ParseMinute(s, year, month, day, hr) ==
    IF hr.ok /\ IsLiteral(s, hr.next, ":")
    THEN ParseSecond(s, year, month, day, hr.val,
                     ScanNumber(s, SkipWhite(s, hr.next + 1), 2))
    ELSE None

\* " %H": the space matches any run of whitespace
ParseHour(s, year, month, dy) ==
    IF dy.ok
    THEN ParseMinute(s, year, month, dy.val,
                     ScanNumber(s, SkipWhite(s, dy.next), 2))
    ELSE None

\* "-%d"
ParseDay(s, year, mo) ==
    IF mo.ok /\ IsLiteral(s, mo.next, "-")
    THEN ParseHour(s, year, mo.val, ScanNumber(s, SkipWhite(s, mo.next + 1), 2))
    ELSE None

\* "-%m"
ParseMonth(s, sign, yr) ==
    IF yr.ok /\ IsLiteral(s, yr.next, "-")
    THEN ParseDay(s, sign * yr.val, ScanNumber(s, SkipWhite(s, yr.next + 1), 2))
    ELSE None

\* "%Y": up to four digits, or any number of digits after an explicit sign
ParseYear(s, p) ==
    IF IsLiteral(s, p, "-") THEN ParseMonth(s, -1, ScanNumber(s, p + 1, Len(s)))
    ELSE IF IsLiteral(s, p, "+") THEN ParseMonth(s, 1, ScanNumber(s, p + 1, Len(s)))
    ELSE ParseMonth(s, 1, ScanNumber(s, p, 4))

\* NaiveDateTime::parse_from_str(s, "%Y-%m-%d %H:%M:%S%.3f"): numeric items
\* skip leading whitespace and take 1..width digits, literals match exactly
ParseFromStr(s) == ParseYear(s, SkipWhite(s, 1))

\* %Y: four digits for the years 0..9999, otherwise a sign and the digits
FormatYear(y) ==
    IF y >= 0 /\ y <= 9999 THEN ZeroPad(NatDigits(y), 4)
    ELSE IF y < 0 THEN <<"-">> \o ZeroPad(NatDigits(0 - y), 4)
    ELSE <<"+">> \o NatDigits(y)

\* NaiveDateTime::format("%Y-%m-%d %H:%M:%S%.3f").to_string()
FormatTimestamp(t) ==
    FormatYear(t.year) \o <<"-">> \o ZeroPad(NatDigits(t.month), 2)
        \o <<"-">> \o ZeroPad(NatDigits(t.day), 2)
        \o <<" ">> \o ZeroPad(NatDigits(t.hour), 2)
        \o <<":">> \o ZeroPad(NatDigits(t.minute), 2)
        \o <<":">> \o ZeroPad(NatDigits(t.second), 2)
        \o <<".">> \o ZeroPad(NatDigits(t.milli), 3)

\* the quotient (digits) and remainder of a digit sequence by a small k
RECURSIVE LongDivide(_, _, _)
LongDivide(d, k, rem) ==
    IF d = <<>> THEN [q |-> <<>>, r |-> rem]
    ELSE LET x == rem * 10 + DigitVal(d[1])
             rest == LongDivide(Tail(d), k, x % k)
         IN [q |-> <<DigitSeq[(x \div k) + 1]>> \o rest.q, r |-> rest.r]

\* the calendar date of a day count from 1970-01-01 (days >= 0), by
\* 400-year cycles counted from 0000-03-01
CivilMonth(y, doy, mp) ==
    [year |-> y + (IF mp >= 10 THEN 1 ELSE 0),
     month |-> IF mp < 10 THEN mp + 3 ELSE mp - 9,
     day |-> doy - (153 * mp + 2) \div 5 + 1]

CivilDayOfYear(y, doy) == CivilMonth(y, doy, (5 * doy + 2) \div 153)

CivilYearOfEra(era, doe, yoe) ==
    CivilDayOfYear(yoe + era * 400,
                   doe - (365 * yoe + yoe \div 4 - yoe \div 100))

CivilDayOfEra(era, doe) ==
    CivilYearOfEra(era, doe,
        (doe - doe \div 1460 + doe \div 36524 - doe \div 146096) \div 365)

CivilFromDays(days) ==
    CivilDayOfEra((days + 719468) \div 146097, (days + 719468) % 146097)

DateTimeOf(date, secs, millis) ==
    IF date.year > MaxYear THEN None
    ELSE Some([year |-> date.year, month |-> date.month, day |-> date.day,
               hour |-> secs \div 3600, minute |-> (secs % 3600) \div 60,
               second |-> secs % 60, milli |-> millis])

\* a day count of more than 8 digits lies beyond MaxYear (and may not fit
\* the i32 that days.to_i32() asks for)
DateTimeOfDays(days, secs, millis) ==
    IF Len(days) > 8 THEN None
    ELSE DateTimeOf(CivilFromDays(DecVal(days)), secs, millis)

DateTimeOfDivMod(dv, millis) == DateTimeOfDays(StripZeros(dv.q), dv.r, millis)

\* NaiveDateTime::from_timestamp_opt(seconds, nanoseconds) for the seconds
\* (a digit sequence) and milliseconds of an epoch-millisecond time: None
\* when the date is out of NaiveDate's range
FromTimestampOpt(seconds, millis) ==
    DateTimeOfDivMod(LongDivide(seconds, 86400, 0), millis)

\* self.time / 1000 and self.time - 1000 * (self.time / 1000), on the
\* decimal digits of the u64 (lines 57-58)
TimeSeconds(time) ==
    IF Len(time) <= 3 THEN <<"0">> ELSE SubSeq(time, 1, Len(time) - 3)

TimeMillis(time) ==
    IF Len(time) <= 3 THEN DecVal(time)
    ELSE DecVal(SubSeq(time, Len(time) - 2, Len(time)))

(***************************************************************************)
(* The free-text pipeline of main (lines 240-347)                          *)
(***************************************************************************)
Brackets == {"[", "]"}

\* lines 250-257: the token has exactly two ':'-separated parts and the
\* second, with every '[' and ']' removed, parses as an i32
IsSourceLine(token) ==
    LET sub_split == StrSplit(token, ":")
    IN /\ Len(sub_split) = 2
       /\ ParseI32Ok(Replace(sub_split[2], Brackets))

\* lines 248-268: the loop over index, from `index` on
RECURSIVE SourceLineSearch(_, _)
SourceLineSearch(tokens, index) ==
    IF index >= Len(tokens) THEN [found |-> None, split |-> tokens]
    ELSE IF IsSourceLine(tokens[index + 1])
    THEN [found |-> Some(tokens[index + 1]), split |-> VecRemove(tokens, index)]
    ELSE SourceLineSearch(tokens, index + 1)

\* the candidate with its colons left in
LevelCandidateKeepingColons(token) ==
    CustomLevelTryFrom(Replace(token, Brackets))

\* lines 274-279
LevelCandidate(token) ==
    CustomLevelTryFrom(Replace(token, {"[", "]", ":"}))

\* lines 272-288
RECURSIVE LevelSearch(_, _)
LevelSearch(tokens, index) ==
    IF index >= Len(tokens) THEN [found |-> None, split |-> tokens]
    ELSE LET level_candidate == LevelCandidate(tokens[index + 1])
         IN IF level_candidate.some
            THEN [found |-> Some(LevelFromCustomLevel(level_candidate.val)),
                  split |-> VecRemove(tokens, index)]
            ELSE LevelSearch(tokens, index + 1)

\* lines 297-312
TimestampCandidate(tokens, index) ==
    LET day == Replace(SelectSeq(tokens[index + 1], IsAscii), Brackets)
        hour == Replace(SelectSeq(tokens[index + 2], IsAscii), Brackets)
    IN ParseFromStr(day \o <<" ">> \o hour)

\* the loop with the two removals the other way round
RECURSIVE TimestampLoopRemovingDayFirst(_, _)
TimestampLoopRemovingDayFirst(tokens, index) ==
    IF index >= Len(tokens) - 1 THEN [found |-> None, split |-> tokens]
    ELSE LET timestamp_candidate == TimestampCandidate(tokens, index)
         IN IF timestamp_candidate.some
            THEN [found |-> timestamp_candidate,
                  split |-> VecRemove(VecRemove(tokens, index), index + 1)]
            ELSE TimestampLoopRemovingDayFirst(tokens, index + 1)

\* lines 294-323
RECURSIVE TimestampLoop(_, _)
TimestampLoop(tokens, index) ==
    IF index >= Len(tokens) - 1 THEN [found |-> None, split |-> tokens]
    ELSE LET timestamp_candidate == TimestampCandidate(tokens, index)
         IN IF timestamp_candidate.some
            THEN [found |-> timestamp_candidate,
                  split |-> VecRemove(VecRemove(tokens, index + 1), index)]
            ELSE TimestampLoop(tokens, index + 1)

\* lines 291-324
TimestampSearch(tokens) ==
    IF Len(tokens) >= 2 THEN TimestampLoop(tokens, 0)
    ELSE [found |-> None, split |-> tokens]

\* lines 341-345: every token pushed, each followed by a space
RECURSIVE PushAll(_)
PushAll(tokens) ==
    IF tokens = <<>> THEN <<>>
    ELSE Head(tokens) \o <<" ">> \o PushAll(Tail(tokens))

\* the message with the last space still on it
MessageUntrimmed(tokens) == PushAll(tokens)

\* lines 341-346
Message(tokens) == Trim(PushAll(tokens))

\* the wall clock at the start: 2024-02-29 12:00:00.499 local time
ClockStart ==
    [year |-> 2024, month |-> 2, day |-> 29, msOfDay |-> 43200499]

\* Local::now() when the clock shows `clock` milliseconds after ClockStart
\* (the clock stays within the day), as the calendar fields of the local time
LocalNow(clock) ==
    LET ms == ClockStart.msOfDay + clock
    IN [year |-> ClockStart.year, month |-> ClockStart.month,
        day |-> ClockStart.day,
        hour |-> ms \div 3600000, minute |-> (ms % 3600000) \div 60000,
        second |-> (ms % 60000) \div 1000, milli |-> ms % 1000]

\* custom_print (lines 182-204): the arguments of println!
custom_print(level, timestamp, line, message) ==
    [color |-> LevelLabel(level).color, level |-> LevelLabel(level).label,
     timestamp |-> timestamp, line |-> line, extras |-> None,
     message |-> message]

(***************************************************************************)
(* serde_json::from_str::<SipAppJson> (line 231) on the JSON texts the     *)
(* inputs hold: one object whose values are strings without escapes,       *)
(* numbers, null, true or false.                                           *)
(***************************************************************************)
KeyChars ==
    [level |-> <<"l", "e", "v", "e", "l">>,
     time |-> <<"t", "i", "m", "e">>,
     msg |-> <<"m", "s", "g">>,
     pid |-> <<"p", "i", "d">>,
     hostname |-> <<"h", "o", "s", "t", "n", "a", "m", "e">>,
     type |-> <<"t", "y", "p", "e">>,
     stack |-> <<"s", "t", "a", "c", "k">>,
     errno |-> <<"e", "r", "r", "n", "o">>,
     syscall |-> <<"s", "y", "s", "c", "a", "l", "l">>,
     address |-> <<"a", "d", "d", "r", "e", "s", "s">>,
     port |-> <<"p", "o", "r", "t">>,
     secret |-> <<"s", "e", "c", "r", "e", "t">>,
     v |-> <<"v">>]

FieldNames == DOMAIN KeyChars

IsWord(s, p, w) == p + Len(w) - 1 <= Len(s) /\ SubSeq(s, p, p + Len(w) - 1) = w

NoValue(p) == [ok |-> FALSE, val |-> [t |-> "null"], next |-> p]

\* a string from the opening quote at p to the closing quote at q
JsonString(s, p, q) ==
    [ok |-> q # 0, val |-> [t |-> "str", v |-> SubSeq(s, p + 1, q - 1)],
     next |-> q + 1]

\* a number of n integer digits from position a, with f fraction digits
\* when a '.' follows them
JsonNumber(s, neg, a, n, f) ==
    [ok |-> /\ n >= 1
            /\ (n > 1 => s[a] # "0")
            /\ (IsLiteral(s, a + n, ".") => f >= 1),
     val |-> [t |-> "num", neg |-> neg, int |-> ~IsLiteral(s, a + n, "."),
              v |-> SubSeq(s, a, a + n - 1)],
     next |-> IF IsLiteral(s, a + n, ".") THEN a + n + 1 + f ELSE a + n]

JsonDigits(s, neg, a, n) ==
    JsonNumber(s, neg, a, n, CountDigits(s, a + n + 1, Len(s)))

\* one JSON value starting at position p: [ok, val, next]
JsonValue(s, p) ==
    IF IsLiteral(s, p, "\"") THEN JsonString(s, p, FindChar(s, p + 1, "\""))
    ELSE IF IsLiteral(s, p, "-")
    THEN JsonDigits(s, TRUE, p + 1, CountDigits(s, p + 1, Len(s)))
    ELSE IF p <= Len(s) /\ s[p] \in DigitChars
    THEN JsonDigits(s, FALSE, p, CountDigits(s, p, Len(s)))
    ELSE IF IsWord(s, p, <<"n", "u", "l", "l">>)
    THEN [ok |-> TRUE, val |-> [t |-> "null"], next |-> p + 4]
    ELSE IF IsWord(s, p, <<"t", "r", "u", "e">>)
    THEN [ok |-> TRUE, val |-> [t |-> "bool"], next |-> p + 4]
    ELSE IF IsWord(s, p, <<"f", "a", "l", "s", "e">>)
    THEN [ok |-> TRUE, val |-> [t |-> "bool"], next |-> p + 5]
    ELSE NoValue(p)

NoMembers == [ok |-> FALSE, acc |-> <<>>, next |-> 0]

RECURSIVE JsonMembers(_, _, _)

\* after a member: ',' and the next member, or '}'
JsonAfterMember(s, acc, after) ==
    IF IsLiteral(s, after, ",") THEN JsonMembers(s, after + 1, acc)
    ELSE IF IsLiteral(s, after, "}") THEN [ok |-> TRUE, acc |-> acc, next |-> after + 1]
    ELSE NoMembers

\* the member key: v.  An unknown key is skipped, a field given twice is an
\* error.
JsonMember(s, acc, key, v) ==
    IF ~v.ok \/ (\E f \in FieldNames : KeyChars[f] = key /\ acc[f].some)
    THEN NoMembers
    ELSE JsonAfterMember(s,
             [f \in FieldNames |-> IF KeyChars[f] = key THEN Some(v.val) ELSE acc[f]],
             SkipWhite(s, v.next))

JsonColon(s, acc, key, colon) ==
    IF IsLiteral(s, colon, ":")
    THEN JsonMember(s, acc, key, JsonValue(s, SkipWhite(s, colon + 1)))
    ELSE NoMembers

JsonKey(s, acc, k) ==
    IF k.ok /\ k.val.t = "str"
    THEN JsonColon(s, acc, k.val.v, SkipWhite(s, k.next))
    ELSE NoMembers

\* the members of an object from position p (at a key), collected into
\* acc: field name -> Option of its value
JsonMembers(s, p, acc) == JsonKey(s, acc, JsonValue(s, SkipWhite(s, p)))

JsonBody(s, first) ==
    IF IsLiteral(s, first, "}")
    THEN [ok |-> TRUE, acc |-> [f \in FieldNames |-> None], next |-> first + 1]
    ELSE JsonMembers(s, first, [f \in FieldNames |-> None])

JsonClosed(s, m) ==
    IF m.ok /\ SkipWhite(s, m.next) = Len(s) + 1 THEN Some(m.acc) ELSE None

JsonOpen(s, open) ==
    IF IsLiteral(s, open, "{")
    THEN JsonClosed(s, JsonBody(s, SkipWhite(s, open + 1)))
    ELSE None

\* the whole text is one JSON object (surrounding whitespace allowed)
JsonObject(s) == JsonOpen(s, SkipWhite(s, 1))

U64Max ==
    <<"1", "8", "4", "4", "6", "7", "4", "4", "0", "7", "3", "7", "0", "9",
      "5", "5", "1", "6", "1", "5">>
U16Max == <<"6", "5", "5", "3", "5">>

\* a usize / u64 / u16 field: a non-negative integer that fits
IsUnsigned(o, max) ==
    o.some /\ o.val.t = "num" /\ o.val.int /\ ~o.val.neg /\ DecLeq(o.val.v, max)

IsString(o) == o.some /\ o.val.t = "str"

\* Option<T>: absent or null is None
IsAbsent(o) == ~o.some \/ o.val.t = "null"

OptionOf(o) == IF IsAbsent(o) THEN None ELSE Some(o.val.v)

\* #[derive(Deserialize)] struct SipAppJson (lines 11-27): every required
\* field is there with its type, every optional one is absent or typed
IsSipAppJson(f) ==
    /\ IsUnsigned(f.level, U64Max)
    /\ IsUnsigned(f.time, U64Max)
    /\ IsString(f.msg)
    /\ IsUnsigned(f.pid, U64Max)
    /\ IsString(f.hostname)
    /\ IsUnsigned(f.v, U64Max)
    /\ \A n \in {"type", "stack", "errno", "syscall", "address", "secret"} :
          IsAbsent(f[n]) \/ IsString(f[n])
    /\ IsAbsent(f.port) \/ IsUnsigned(f.port, U16Max)

SipAppJson(f) ==
    [level |-> f.level.val.v, time |-> f.time.val.v, msg |-> f.msg.val.v,
     pid |-> f.pid.val.v, hostname |-> f.hostname.val.v,
     type_ |-> OptionOf(f.type), stack |-> OptionOf(f.stack),
     errno |-> OptionOf(f.errno), syscall |-> OptionOf(f.syscall),
     address |-> OptionOf(f.address), port |-> OptionOf(f.port),
     secret |-> OptionOf(f.secret), v |-> f.v.val.v]

Deserialize(o) ==
    IF o.some /\ IsSipAppJson(o.val) THEN Some(SipAppJson(o.val)) ELSE None

\* serde_json::from_str(&input).ok() (line 231)
FromStr(text) == Deserialize(JsonObject(text))

\* one optional extra (lines 81-101): " key:value" when the field is Some
Extra(key, field) ==
    IF field.some THEN <<[key |-> KeyChars[key], value |-> Trim(field.val)]>>
    ELSE <<>>

\* the port (lines 96-98) is a number: printed as it is
ExtraPort(field) ==
    IF field.some THEN <<[key |-> KeyChars.port, value |-> field.val]>>
    ELSE <<>>

\* the extras with the secret ahead of the port
ExtrasSecretFirst(self) ==
    <<[key |-> KeyChars.v, value |-> self.v],
      [key |-> KeyChars.pid, value |-> self.pid],
      [key |-> KeyChars.hostname, value |-> Trim(self.hostname)]>>
    \o Extra("type", self.type_)
    \o Extra("stack", self.stack)
    \o Extra("errno", self.errno)
    \o Extra("syscall", self.syscall)
    \o Extra("address", self.address)
    \o Extra("secret", self.secret)
    \o ExtraPort(self.port)

\* lines 76-102: the extras, in the order they are appended
Extras(self) ==
    <<[key |-> KeyChars.v, value |-> self.v],
      [key |-> KeyChars.pid, value |-> self.pid],
      [key |-> KeyChars.hostname, value |-> Trim(self.hostname)]>>
    \o Extra("type", self.type_)
    \o Extra("stack", self.stack)
    \o Extra("errno", self.errno)
    \o Extra("syscall", self.syscall)
    \o Extra("address", self.address)
    \o ExtraPort(self.port)
    \o Extra("secret", self.secret)

Printout(self, label, datetime) ==
    IF ~datetime.some THEN None
    ELSE Some([color |-> label.color, level |-> label.label,
               timestamp |-> FormatTimestamp(datetime.val), line |-> None,
               extras |-> Some(Extras(self)), message |-> Trim(self.msg)])

\* SipAppJson::custom_print (lines 55-109): None when from_timestamp panics,
\* otherwise the parts of the printed line
SipAppJson_custom_print(self) ==
    Printout(self,
             LevelLabel(LevelFromCustomLevel(CustomLevelFromUsize(self.level))),
             FromTimestampOpt(TimeSeconds(self.time), TimeMillis(self.time)))


(***************************************************************************)
(* The main loop (lines 225-353)                                           *)
(***************************************************************************)
MaxClock == 1

\* read_line returns Ok(n), n > 0 (lines 228, 230)
ReadLine ==
    /\ pc = "read"
    /\ stdin # <<>>
    /\ Head(stdin).kind = "line"
    /\ input' = Head(stdin).text
    /\ consumed' = Append(consumed, Head(stdin).text)
    /\ stdin' = Tail(stdin)
    /\ pc' = "parse"
    /\ UNCHANGED <<now, json_candidate, split, found_line, found_level,
                   found_timestamp, stdout, diagnostics>>

\* read_line returns Ok(0): break (line 229), and main returns
ReadEof ==
    /\ pc = "read"
    /\ stdin = <<>>
    /\ pc' = "done"
    /\ UNCHANGED <<stdin, now, input, json_candidate, split, found_line,
                   found_level, found_timestamp, stdout, diagnostics, consumed>>

\* error!(): the logger that logging::from_verbosity installs (its module is
\* not among the sources) takes the message to the diagnostic sink
LogError(sink) == sink + 1

\* read_line returns Err: error!() and the next iteration (lines 349-351)
ReadError ==
    /\ pc = "read"
    /\ stdin # <<>>
    /\ Head(stdin).kind = "err"
    /\ diagnostics' = LogError(diagnostics)
    /\ stdin' = Tail(stdin)
    /\ UNCHANGED <<now, pc, input, json_candidate, split, found_line,
                   found_level, found_timestamp, stdout, consumed>>

\* line 231
ParseJson ==
    /\ pc = "parse"
    /\ json_candidate' = FromStr(input)
    /\ pc' = "match"
    /\ UNCHANGED <<stdin, now, input, split, found_line, found_level,
                   found_timestamp, stdout, diagnostics, consumed>>

\* json_line.custom_print() either prints and returns, and the loop
\* continues (line 235), or panics in from_timestamp
Emit(printout) ==
    IF printout.some
    THEN /\ stdout' = Append(stdout, printout.val)
         /\ pc' = "read"
    ELSE /\ pc' = "panicked"
         /\ UNCHANGED stdout

\* the line is a structured record (lines 233-236)
PrintStructured ==
    /\ pc = "match"
    /\ json_candidate.some
    /\ Emit(SipAppJson_custom_print(json_candidate.val))
    /\ UNCHANGED <<stdin, now, input, json_candidate, split, found_line,
                   found_level, found_timestamp, diagnostics, consumed>>

\* the line is no structured record (line 237): trim and split (241-244)
Tokenize ==
    /\ pc = "match"
    /\ ~json_candidate.some
    /\ input' = Trim(input)
    /\ split' = StrSplit(Trim(input), " ")
    /\ pc' = "location"
    /\ UNCHANGED <<stdin, now, json_candidate, found_line, found_level,
                   found_timestamp, stdout, diagnostics, consumed>>

\* search for source line (lines 246-268)
SearchSourceLine ==
    /\ pc = "location"
    /\ found_line' = SourceLineSearch(split, 0).found
    /\ split' = SourceLineSearch(split, 0).split
    /\ pc' = "level"
    /\ UNCHANGED <<stdin, now, input, json_candidate, found_level,
                   found_timestamp, stdout, diagnostics, consumed>>

\* search for an indicator of a level (lines 270-288)
SearchLevel ==
    /\ pc = "level"
    /\ found_level' = LevelSearch(split, 0).found
    /\ split' = LevelSearch(split, 0).split
    /\ pc' = "timestamp"
    /\ UNCHANGED <<stdin, now, input, json_candidate, found_line,
                   found_timestamp, stdout, diagnostics, consumed>>

\* search for a timestamp (lines 290-324)
SearchTimestamp ==
    /\ pc = "timestamp"
    /\ found_timestamp' = TimestampSearch(split).found
    /\ split' = TimestampSearch(split).split
    /\ pc' = "print"
    /\ UNCHANGED <<stdin, now, input, json_candidate, found_line,
                   found_level, stdout, diagnostics, consumed>>

\* lines 327-330
LevelOrDefault(found) == IF found.some THEN found.val ELSE "Info"

\* the clock's time whatever was found
TimestampAlwaysNow(found, clock) == FormatTimestamp(LocalNow(clock))

\* lines 333-338: the timestamp found, or Local::now() at `clock`
TimestampOrNow(found, clock) ==
    IF found.some THEN FormatTimestamp(found.val)
    ELSE FormatTimestamp(LocalNow(clock))

\* the defaults, the message and the printout (lines 326-347).
\* Local::now() is read only when no timestamp was found; the clock it
\* shows has not gone back since it was last read.  The locals keep their
\* last values until the next iteration declares them again.
PrintLine ==
    /\ pc = "print"
    /\ \E clock \in now..MaxClock :
          /\ now' = IF found_timestamp.some THEN now ELSE clock
          /\ stdout' = Append(stdout,
                 custom_print(LevelOrDefault(found_level),
                              TimestampOrNow(found_timestamp, clock),
                              found_line, Message(split)))
    /\ pc' = "read"
    /\ UNCHANGED <<stdin, input, json_candidate, split, found_line,
                   found_level, found_timestamp, diagnostics, consumed>>

Next ==
    \/ ReadLine
    \/ ReadEof
    \/ ReadError
    \/ ParseJson
    \/ PrintStructured
    \/ Tokenize
    \/ SearchSourceLine
    \/ SearchLevel
    \/ SearchTimestamp
    \/ PrintLine

(***************************************************************************)
(* The inputs: tokens, lines and streams                                   *)
(***************************************************************************)
TokEmpty ==
    <<>>
TokBoom ==
    <<"b", "o", "o", "m">>
TokTabbed ==
    <<"\t", "x">>
TokAccent ==
    <<"c", "a", "f", "U+00E9">>
TokError ==
    <<"E", "R", "R", "O", "R">>
TokWarnDecorated ==
    <<"[", "W", "A", "R", "N", "]", ":">>
TokLowerError ==
    <<"e", "r", "r", "o", "r">>
TokDate ==
    <<"2", "0", "2", "3", "-", "0", "6", "-", "0", "1">>
TokTime ==
    <<"1", "2", ":", "0", "0", ":", "0", "0", ".", "5", "0", "0">>
TokTimeShort ==
    <<"[", "1", "2", ":", "0", "0", ":", "0", "0", "]">>
TokBadDate ==
    <<"2", "0", "2", "3", "-", "1", "3", "-", "0", "1">>
TokLocation ==
    <<"[", "/", "s", "r", "c", "/", "a", "p", "p", ".", "r", "s", ":", "4",
      "2", "]">>
TokBracketInNumber ==
    <<"a", ":", "4", "]", "2">>
TokTwoColons ==
    <<"[", "a", ":", "b", ":", "c", "]">>
TokFraction ==
    <<"a", ":", "3", ".", "5">>
TokHugeLine ==
    <<"a", ":", "2", "1", "4", "7", "4", "8", "3", "6", "4", "8">>
TokOpenJson ==
    <<"{", "\"", "l", "e", "v", "e", "l", "\"", ":", "5", "0">>

TokInfoColon ==
    <<"I", "N", "F", "O", ":">>
TokLineSeven ==
    <<"a", ":", "7">>
TokJsonTimeKey ==
    <<"{", "\"", "t", "i", "m", "e", "\"", ":">>
TokCloseBrace ==
    <<"}">>
MsgFail ==
    <<"f", "a", "i", "l">>
MsgWithTokens ==
    <<" ", "E", "R", "R", "O", "R", " ", "[", "a", ":", "1", "]", " ", "2",
      "0", "2", "3", "-", "0", "6", "-", "0", "1", " ", "1", "2", ":", "0",
      "0", ":", "0", "0", ".", "5", "0", "0", " ", "f", "a", "i", "l", " ">>
TimeOneSecond ==
    <<"1", "0", "0", "0">>
TimeJune2023 ==
    <<"1", "6", "8", "5", "6", "2", "0", "8", "0", "0", "5", "0", "0">>
TimeLast ==
    <<"8", "2", "1", "0", "2", "9", "8", "4", "1", "2", "7", "9", "9", "9",
      "9", "9">>
TimeBeyond ==
    <<"8", "2", "1", "0", "2", "9", "8", "4", "1", "2", "8", "0", "0", "0",
      "0", "0">>

RECURSIVE JoinWith(_, _)
JoinWith(parts, sep) ==
    IF parts = <<>> THEN <<>>
    ELSE IF Len(parts) = 1 THEN parts[1]
    ELSE parts[1] \o <<sep>> \o JoinWith(Tail(parts), sep)

\* the text lines of at most n tokens of vocab, single spaces between them
TextLines(vocab, n) ==
    {JoinWith(tokens, " ") \o <<"\n">> :
        tokens \in UNION {[1..k -> vocab] : k \in 0..n}}

Quoted(chars) == <<"\"">> \o chars \o <<"\"">>

Member(key, value) == Quoted(KeyChars[key]) \o <<":">> \o value

JsonText(members) == <<"{">> \o JoinWith(members, ",") \o <<"}", "\n">>

StreamOf(line) == [kind |-> "line", text |-> line]
ReadFailure == [kind |-> "err", text |-> <<>>]

InitWith(streams) ==
    /\ stdin \in streams
    /\ now = 0
    /\ pc = "read"
    /\ input = <<>>
    /\ json_candidate = None
    /\ split = <<>>
    /\ found_line = None
    /\ found_level = None
    /\ found_timestamp = None
    /\ stdout = <<>>
    /\ diagnostics = 0
    /\ consumed = <<>>

\* the optional fields of a record, in the order the inputs write them
\* (the reverse of the order they are printed in)
OptionalFields ==
    <<"secret", "port", "address", "syscall", "errno", "stack", "type">>

OptionalValue ==
    [type |-> Quoted(<<"E">>),
     stack |-> Quoted(<<" ", "a", "t", " ", "x", " ">>),
     errno |-> Quoted(<<"E", "2">>),
     syscall |-> Quoted(<<"c", "o", "n", "n", "e", "c", "t">>),
     address |-> Quoted(<<":", ":", "1">>),
     port |-> <<"8", "0">>,
     secret |-> Quoted(<<"s", "3">>)]

MembersOf(keys) == [i \in 1..Len(keys) |-> Member(keys[i], OptionalValue[keys[i]])]

\* {"level":L,"time":T,"msg":"M","pid":1,"hostname":" h",<optional>,"v":0}
StructuredText(level, time, msg, optional) ==
    JsonText(<<Member("level", level), Member("time", time),
               Member("msg", Quoted(msg)), Member("pid", <<"1">>),
               Member("hostname", Quoted(<<"h">>))>>
             \o MembersOf(SelectSeq(OptionalFields, LAMBDA k : k \in optional))
             \o <<Member("v", <<"0">>)>>)

\* {"level":50,"time":1000,"msg":"fail","pid":1,"hostname":"h","v":0}
ExampleRecord == StructuredText(<<"5", "0">>, TimeOneSecond, MsgFail, {})

MaxLevelCode == 70

LevelCodes == {NatDigits(n) : n \in 0..MaxLevelCode} \cup {U64Max}

Times == {TimeOneSecond, TimeJune2023, TimeLast, TimeBeyond, U64Max}

StructuredLines ==
    {StructuredText(l, TimeOneSecond, MsgFail, {}) : l \in LevelCodes}
    \cup {StructuredText(<<"3", "0">>, t, m, {}) :
             t \in Times, m \in {MsgFail, MsgWithTokens}}
    \cup {StructuredText(<<"5", "0">>, TimeOneSecond, MsgFail, o) :
             o \in SUBSET {OptionalFields[i] : i \in 1..Len(OptionalFields)}}

\* objects that are not the record: a field missing, mistyped, out of
\* range, negative, given twice; and two that are (null, an unknown key)
OtherJsonLines ==
    {JsonText(<<Member("level", <<"5", "0">>), Member("time", TimeOneSecond),
                Member("msg", Quoted(MsgFail)), Member("pid", <<"1">>),
                Member("hostname", Quoted(<<"h">>))>> \o tail) :
        tail \in {<<>>,
                  <<Member("v", Quoted(<<"0">>))>>,
                  <<Member("v", <<"0">>), Member("port", <<"6", "5", "5", "3", "6">>)>>,
                  <<Member("v", <<"-", "1">>)>>,
                  <<Member("v", <<"0">>), Member("v", <<"0">>)>>,
                  <<Member("v", <<"0">>), Member("port", <<"n", "u", "l", "l">>)>>,
                  <<Member("v", <<"0">>), Quoted(<<"x">>) \o <<":", "1", ".", "5">>>>}}

MaxTokens == 3

Vocabulary ==
    {TokEmpty, TokBoom, TokTabbed, TokAccent, TokError, TokWarnDecorated,
     TokDate, TokTime, TokLocation, TokBracketInNumber, TokHugeLine,
     TokTwoColons, TokFraction, TokOpenJson}

OneLine(lines) ==
    {<<StreamOf(l)>> : l \in lines \cup {ExampleRecord}}
    \cup {<<ReadFailure, StreamOf(TokBoom \o <<"\n">>)>>}

\* one line, free text or JSON
Init ==
    InitWith(OneLine(TextLines(Vocabulary, MaxTokens)
                     \cup StructuredLines \cup OtherJsonLines))

Spec == Init /\ [][Next]_vars

LevelVocabulary ==
    {WordERROR, WordWARN, WordINFO, WordDEBUG, WordTRACE, WordERR,
     WordWARNING, WordCONSOLE, WordNOTICE, TokWarnDecorated, TokInfoColon,
     TokLowerError, TokLineSeven}

\* one line of level words
InitLevel == InitWith(OneLine(TextLines(LevelVocabulary, MaxTokens)))

SpecLevel == InitLevel /\ [][Next]_vars

MaxFullTokens == 5

FullVocabulary ==
    {TokEmpty, TokBoom, TokError, TokDate, TokTime, TokLocation}

\* one line with up to every kind of token in it
InitFull ==
    InitWith(OneLine(TextLines(FullVocabulary, MaxFullTokens)))

SpecFull == InitFull /\ [][Next]_vars

MaxLines == 3

MalformedNoTime == TokOpenJson \o <<"\n">>
MalformedWithTime ==
    JoinWith(<<TokJsonTimeKey, TokDate, TokTime, TokCloseBrace>>, " ") \o <<"\n">>
PanicRecord == StructuredText(<<"3", "0">>, U64Max, MsgFail, {})

StreamLines ==
    {MalformedNoTime, MalformedWithTime, ExampleRecord, PanicRecord,
     JoinWith(<<TokError, TokBoom>>, " ") \o <<"\n">>}

\* streams of up to MaxLines reads, failed ones among them
InitStream ==
    InitWith(UNION {[1..n -> {StreamOf(l) : l \in StreamLines} \cup {ReadFailure}] :
                       n \in 0..MaxLines})

SpecStream == InitStream /\ [][Next]_vars

(***************************************************************************)
(* Properties                                                              *)
(***************************************************************************)
\* the level field of a printed line, by severity
RenderedLevel ==
    [Error |-> <<"E", "R", "R", "O", "R">>,
     Warn |-> <<"W", "A", "R", "N", " ">>,
     Info |-> <<"I", "N", "F", "O", " ">>,
     Debug |-> <<"D", "E", "B", "U", "G">>,
     Trace |-> <<"T", "R", "A", "C", "E">>]

\* the tokens of a line as read: trimmed, split at single spaces
TokensOf(line) == StrSplit(Trim(line), " ")

\* the i-th line read is a structured record
IsStructured(i) == FromStr(consumed[i]).some

RecordOf(i) == FromStr(consumed[i]).val

\* C1: no line read makes the process panic: every line is processed to its
\* printed line and the loop reads on.
C1_NeverPanics == pc # "panicked"

Fifty == <<"5", "0">>

\* the severity the claim gives a level code: Error from 50 on
C3ClaimedSeverity(n) ==
    IF DecLeq(Fifty, n) THEN "Error"
    ELSE IF n = <<"4", "0">> THEN "Warn"
    ELSE IF n = <<"3", "0">> THEN "Info"
    ELSE IF n = <<"2", "0">> THEN "Debug"
    ELSE "Trace"

\* C3 as claimed: a structured record of level n is printed as Trace if
\* n <= 10 or n is unmapped, Debug if 20, Info if 30, Warn if 40, and Error
\* for every n >= 50.
C3_ErrorFromFifty ==
    \A i \in 1..Len(stdout) :
        IsStructured(i) =>
            stdout[i].level = RenderedLevel[C3ClaimedSeverity(RecordOf(i).level)]

\* the severity of a level code: Error for 50 and 60 only
C3MappedSeverity(n) ==
    IF n \in {Fifty, <<"6", "0">>} THEN "Error"
    ELSE IF n = <<"4", "0">> THEN "Warn"
    ELSE IF n = <<"3", "0">> THEN "Info"
    ELSE IF n = <<"2", "0">> THEN "Debug"
    ELSE "Trace"

\* C3, amended: a structured record of level n is printed as Debug if n = 20,
\* Info if n = 30, Warn if n = 40, Error if n = 50 or n = 60, and Trace for
\* every other n, those above 50 included.
C3_ErrorAtFiftyAndSixty ==
    \A i \in 1..Len(stdout) :
        IsStructured(i) =>
            stdout[i].level = RenderedLevel[C3MappedSeverity(RecordOf(i).level)]

\* a record of level 55 has been printed, as Trace
C3_Witness ==
    \E i \in 1..Len(stdout) :
        /\ IsStructured(i)
        /\ RecordOf(i).level = <<"5", "5">>
        /\ stdout[i].level = RenderedLevel.Trace

\* the token without one leading '[' and one trailing ']'
StripBracketPair(token) ==
    LET opened == IF token # <<>> /\ Head(token) = "[" THEN Tail(token) ELSE token
    IN IF opened # <<>> /\ opened[Len(opened)] = "]"
       THEN SubSeq(opened, 1, Len(opened) - 1)
       ELSE opened

\* an optional sign and one or more digits
IsInteger(s) ==
    LET digits == IF s # <<>> /\ Head(s) \in {"+", "-"} THEN Tail(s) ELSE s
    IN digits # <<>> /\ \A k \in 1..Len(digits) : digits[k] \in DigitChars

\* the token, without its bracket pair, has exactly one ':' and an integer
\* after it
IsPathLine(token) ==
    LET inner == StripBracketPair(token)
        colons == {k \in 1..Len(inner) : inner[k] = ":"}
    IN /\ Cardinality(colons) = 1
       /\ IsInteger(SubSeq(inner, (CHOOSE k \in colons : TRUE) + 1, Len(inner)))

\* the sequence without its k-th element
Without(seq, k) == SubSeq(seq, 1, k - 1) \o SubSeq(seq, k + 1, Len(seq))

Leftmost(hits) == CHOOSE k \in hits : \A other \in hits : k <= other

\* C4: after the source-location step, the location is the leftmost token
\* of the line that, without one leading '[' and one trailing ']', has
\* exactly one ':' followed by an integer, verbatim, and the token list is
\* the line's tokens without it; when the line has no such token the
\* location is absent and the list is the line's tokens.
C4_LeftmostPathLine ==
    pc = "level" =>
        LET tokens == StrSplit(input, " ")
            hits == {k \in 1..Len(tokens) : IsPathLine(tokens[k])}
        IN IF hits = {}
           THEN found_line = None /\ split = tokens
           ELSE /\ found_line = Some(tokens[Leftmost(hits)])
                /\ split = Without(tokens, Leftmost(hits))

LevelWords ==
    {WordERROR, WordWARN, WordINFO, WordDEBUG, WordTRACE, WordERR,
     WordWARNING, WordCONSOLE, WordNOTICE}

\* the token without every '[', ']' and ':'
Undecorated(token) == Replace(token, {"[", "]", ":"})

IsLevelToken(token) == Undecorated(token) \in LevelWords

\* the two tokens, a space between them, read as a timestamp
IsTimestampPair(day, hour) == ParseFromStr(day \o <<" ">> \o hour).some

\* what the local clock can show
ClockReadings == {FormatTimestamp(LocalNow(clock)) : clock \in 0..MaxClock}

\* the line has no level token, no timestamp pair and no path:line token
IsPlain(tokens) ==
    /\ \A k \in 1..Len(tokens) : ~IsLevelToken(tokens[k])
    /\ \A k \in 1..Len(tokens) : ~IsPathLine(tokens[k])
    /\ \A k \in 1..Len(tokens) - 1 : ~IsTimestampPair(tokens[k], tokens[k + 1])

\* C5: every line with no level token, no adjacent pair of tokens that is a
\* timestamp and no path:line token is printed with severity Info, the
\* local clock's time, no location and the whole trimmed line as message.
C5_PlainLineDefaults ==
    \A i \in 1..Len(stdout) :
        IsPlain(TokensOf(consumed[i])) =>
            /\ stdout[i].level = RenderedLevel.Info
            /\ stdout[i].timestamp \in ClockReadings
            /\ stdout[i].line = None
            /\ stdout[i].message = Trim(consumed[i])

\* the severity of each level word
SeverityOfWord(word) ==
    CASE word = WordERROR -> "Error"
      [] word = WordWARN -> "Warn"
      [] word = WordINFO -> "Info"
      [] word = WordDEBUG -> "Debug"
      [] word = WordTRACE -> "Trace"
      [] word = WordERR -> "Error"
      [] word = WordWARNING -> "Warn"
      [] word = WordCONSOLE -> "Debug"
      [] word = WordNOTICE -> "Trace"

\* the severity step takes the leftmost level token out of the list
C9Step ==
    LET hits == {k \in 1..Len(split) : IsLevelToken(split[k])}
    IN IF hits = {}
       THEN found_level' = None /\ split' = split
       ELSE /\ found_level' = Some(SeverityOfWord(Undecorated(split[Leftmost(hits)])))
            /\ split' = Without(split, Leftmost(hits))

\* C9: the severity step, on the list the location step left, removes the
\* leftmost token that without its '[', ']' and ':' is one of the nine level
\* words, and only that token, and yields the word's severity; with no such
\* token the list stays as it is and the line is printed as Info.
C9_LeftmostLevelWord ==
    [][/\ pc = "level" => C9Step
       /\ (pc = "print" /\ ~found_level.some) =>
              stdout'[Len(stdout')].level = RenderedLevel.Info]_vars

\* the decorated [WARN]: was taken, the ERROR after it stayed
C9_Witness ==
    /\ pc = "timestamp"
    /\ input = TokWarnDecorated \o <<" ">> \o WordERROR
    /\ found_level = Some("Warn")
    /\ split = <<WordERROR>>

\* the order of the extras
ExtrasOrder ==
    <<"v", "pid", "hostname", "type", "stack", "errno", "syscall", "address",
      "port", "secret">>

\* the field of the record that an extra shows
FieldOf(record, key) ==
    CASE key = "v" -> Some(record.v)
      [] key = "pid" -> Some(record.pid)
      [] key = "hostname" -> Some(record.hostname)
      [] key = "type" -> record.type_
      [] key = "stack" -> record.stack
      [] key = "errno" -> record.errno
      [] key = "syscall" -> record.syscall
      [] key = "address" -> record.address
      [] key = "port" -> record.port
      [] key = "secret" -> record.secret

PresentKeys(record) ==
    SelectSeq(ExtrasOrder, LAMBDA key : FieldOf(record, key).some)

\* the extras are the present fields, in order, key and trimmed value
ExtrasShow(extras, record) ==
    /\ Len(extras) = Len(PresentKeys(record))
    /\ \A j \in 1..Len(extras) :
          /\ extras[j].key = KeyChars[PresentKeys(record)[j]]
          /\ extras[j].value = Trim(FieldOf(record, PresentKeys(record)[j]).val)

EpochPlusOneSecond ==
    <<"1", "9", "7", "0", "-", "0", "1", "-", "0", "1", " ", "0", "0", ":", "0", "0", ":", "0", "1", ".", "0", "0", "0">>

\* C6: a structured record is printed with the severity of its level, its
\* trimmed msg as the whole message, no location, and as extras exactly its
\* present optional fields after v, pid and hostname, in the order v, pid,
\* hostname, type, stack, errno, syscall, address, port, secret; the record
\* {"level":50,"time":1000,"msg":"fail","pid":1,"hostname":"h","v":0} is
\* printed as Error at 1970-01-01 00:00:01.000 with extras v:0, pid:1 and
\* hostname:h and message fail.
C6_StructuredRendering ==
    \A i \in 1..Len(stdout) :
        IsStructured(i) =>
            /\ stdout[i].level = RenderedLevel[C3MappedSeverity(RecordOf(i).level)]
            /\ stdout[i].message = Trim(RecordOf(i).msg)
            /\ stdout[i].line = None
            /\ stdout[i].extras.some
            /\ ExtrasShow(stdout[i].extras.val, RecordOf(i))
            /\ consumed[i] = ExampleRecord =>
                  /\ stdout[i].level = RenderedLevel.Error
                  /\ stdout[i].timestamp = EpochPlusOneSecond
                  /\ stdout[i].message = MsgFail
                  /\ stdout[i].extras.val =
                         <<[key |-> KeyChars.v, value |-> <<"0">>],
                           [key |-> KeyChars.pid, value |-> <<"1">>],
                           [key |-> KeyChars.hostname, value |-> <<"h">>]>>

\* a record with every optional field has been printed with its ten extras
C6_Witness ==
    \E i \in 1..Len(stdout) :
        /\ IsStructured(i)
        /\ Len(PresentKeys(RecordOf(i))) = Len(ExtrasOrder)
        /\ Len(stdout[i].extras.val) = Len(ExtrasOrder)

\* C7 as claimed: a line that is no structured record, read twice, is
\* printed the same both times, wherever in the stream and whenever.
C7_SameLineSameOutput ==
    \A i, j \in 1..Len(stdout) :
        (consumed[i] = consumed[j] /\ ~IsStructured(i)) =>
            stdout[i] = stdout[j]

\* the timestamp step finds a timestamp in the line
CarriesTimestamp(line) ==
    TimestampSearch(
        LevelSearch(SourceLineSearch(TokensOf(line), 0).split, 0).split).found.some

\* C7, amended: a line that is no structured record, read twice, is printed
\* both times with the same severity, location and message, and with the
\* same timestamp when the line carries one; when it carries none, each
\* printed line shows what the local clock read when it was printed.
C7_SameLineSameButClock ==
    \A i, j \in 1..Len(stdout) :
        (consumed[i] = consumed[j] /\ ~IsStructured(i)) =>
            /\ stdout[i].color = stdout[j].color
            /\ stdout[i].level = stdout[j].level
            /\ stdout[i].line = stdout[j].line
            /\ stdout[i].extras = stdout[j].extras
            /\ stdout[i].message = stdout[j].message
            /\ IF CarriesTimestamp(consumed[i])
               THEN stdout[i].timestamp = stdout[j].timestamp
               ELSE stdout[i].timestamp \in ClockReadings

\* the same malformed line was printed twice, at two clock readings
C7_Witness ==
    \E i, j \in 1..Len(stdout) :
        /\ i < j
        /\ consumed[i] = MalformedNoTime
        /\ consumed[j] = MalformedNoTime
        /\ stdout[i].timestamp # stdout[j].timestamp

\* the steps between the read of a line and its printed line
Processing == {"parse", "match", "location", "level", "timestamp", "print"}

\* C8: the loop is always reading, on the steps from a line read to its
\* printed line, or past its normal exit; whenever it reads, and after the
\* exit, every line read has its one printed line (failed reads have none);
\* while a line is processed it is the only one without; and the exit is
\* taken only at the end of the stream.
C8_ReadProcessWrite ==
    /\ pc \in {"read", "done"} \cup Processing
    /\ pc \in {"read", "done"} => Len(stdout) = Len(consumed)
    /\ pc \in Processing => Len(stdout) + 1 = Len(consumed)
    /\ pc = "done" => stdin = <<>>

\* the positions of the path:line tokens
PathLinesIn(tokens) == {k \in 1..Len(tokens) : IsPathLine(tokens[k])}

\* the positions of the level tokens
LevelsIn(tokens) == {k \in 1..Len(tokens) : IsLevelToken(tokens[k])}

\* the two tokens are a timestamp, written as it is printed
IsPrintedTimestamp(day, hour) ==
    /\ IsTimestampPair(day, hour)
    /\ FormatTimestamp(ParseFromStr(day \o <<" ">> \o hour).val)
           = day \o <<" ">> \o hour

\* the positions where a date token stands directly before its time token
TimestampsIn(tokens) ==
    {k \in 1..Len(tokens) - 1 : IsPrintedTimestamp(tokens[k], tokens[k + 1])}

IsBracketed(token) ==
    Len(token) >= 2 /\ Head(token) = "[" /\ token[Len(token)] = "]"

\* the tokens without the one path:line token
AfterLocation(tokens) == Without(tokens, Leftmost(PathLinesIn(tokens)))

\* then without the one level token
AfterLevel(tokens) ==
    Without(AfterLocation(tokens), Leftmost(LevelsIn(AfterLocation(tokens))))

\* then without the date and the time
AfterTimestamp(tokens) ==
    Without(Without(AfterLevel(tokens), Leftmost(TimestampsIn(AfterLevel(tokens))) + 1),
            Leftmost(TimestampsIn(AfterLevel(tokens))))

\* one bracketed path:line token, one level token, then one date directly
\* before its time, and one or more words besides
IsFullLine(tokens) ==
    /\ Cardinality(PathLinesIn(tokens)) = 1
    /\ IsBracketed(tokens[Leftmost(PathLinesIn(tokens))])
    /\ Cardinality(LevelsIn(AfterLocation(tokens))) = 1
    /\ Cardinality(TimestampsIn(AfterLevel(tokens))) = 1
    /\ AfterTimestamp(tokens) # <<>>
    /\ \A k \in 1..Len(AfterTimestamp(tokens)) : AfterTimestamp(tokens)[k] # <<>>

LocationOf(tokens) == tokens[Leftmost(PathLinesIn(tokens))]

SeverityOf(tokens) ==
    SeverityOfWord(Undecorated(
        AfterLocation(tokens)[Leftmost(LevelsIn(AfterLocation(tokens)))]))

TimestampOf(tokens) ==
    AfterLevel(tokens)[Leftmost(TimestampsIn(AfterLevel(tokens)))] \o <<" ">>
    \o AfterLevel(tokens)[Leftmost(TimestampsIn(AfterLevel(tokens))) + 1]

\* 2023-06-01 12:00:00.500 ERROR [/src/app.rs:42] boom
FullExample ==
    <<"2", "0", "2", "3", "-", "0", "6", "-", "0", "1", " ", "1", "2", ":", "0", "0", ":", "0", "0", ".", "5", "0", "0", " ", "E", "R", "R", "O", "R", " ", "[", "/", "s", "r", "c", "/", "a", "p", "p", ".", "r", "s", ":", "4", "2", "]", " ", "b", "o", "o", "m">> \o <<"\n">>

\* /src/app.rs:42
PathAndLine ==
    <<"/", "s", "r", "c", "/", "a", "p", "p", ".", "r", "s", ":", "4", "2">>

Taken ==
    (IF found_line.some THEN 1 ELSE 0) + (IF found_level.some THEN 1 ELSE 0)
    + (IF found_timestamp.some THEN 2 ELSE 0)

\* the tokens at the positions that are not in `taken`, in their order
Keeping(tokens, taken) ==
    LET F[k \in 0..Len(tokens)] ==
            IF k = 0 THEN <<>>
            ELSE IF k \in taken THEN F[k - 1]
            ELSE Append(F[k - 1], tokens[k])
    IN F[Len(tokens)]

\* the list is the line's tokens without those taken: one for a location,
\* which is the location found, one for a level, two for a timestamp
TokensConserved ==
    \E taken \in SUBSET (1..Len(StrSplit(input, " "))) :
        /\ Cardinality(taken) = Taken
        /\ split = Keeping(StrSplit(input, " "), taken)
        /\ found_line.some =>
               \E k \in taken : StrSplit(input, " ")[k] = found_line.val

NoOuterWhiteSpace(text) ==
    text = <<>> \/ (Head(text) \notin WhiteSpace /\ text[Len(text)] \notin WhiteSpace)

\* C10 as claimed: when a line is printed the token list is the line's
\* tokens without those the three steps took, four at most, and the message
\* is the tokens of the list, each once, in order, with single spaces
\* between them, and has no white space at either end.
C10_MessageIsTheJoin ==
    [][pc = "print" =>
          /\ TokensConserved
          /\ Taken <= 4
          /\ stdout'[Len(stdout')].message = JoinWith(split, " ")
          /\ NoOuterWhiteSpace(stdout'[Len(stdout')].message)]_vars

\* C10, amended: when a line is printed the token list is the line's tokens
\* without those the three steps took, four at most, and the message is the
\* tokens of the list joined in order with single spaces and then trimmed
\* of white space at both ends, so that empty tokens at an end of the list
\* leave no trace in it.
C10_MessageIsTheTrimmedJoin ==
    [][pc = "print" =>
          /\ TokensConserved
          /\ Taken <= 4
          /\ stdout'[Len(stdout')].message = Trim(JoinWith(split, " "))
          /\ NoOuterWhiteSpace(stdout'[Len(stdout')].message)]_vars

\* a line was printed whose location and level were taken and whose list
\* ended in an empty token
C10_Witness ==
    /\ pc = "read"
    /\ ~json_candidate.some
    /\ found_line.some
    /\ found_level.some
    /\ split = <<TokBoom, TokEmpty>>
    /\ stdout # <<>>
    /\ stdout[Len(stdout)].message = TokBoom

====
